---- MODULE Spec2Model ----
(***************************************************************************)
(* Verification model of Hourglass/tensorflow/train.py: the Trainer class  *)
(* (learning-rate scheduler, loss aggregation, epoch drivers, checkpoint   *)
(* decision) and its run loop.                                             *)
(*                                                                         *)
(* Numbers.  Losses and learning rates are floats in the program.  They    *)
(* are modelled as exact fractions [n |-> numerator, d |-> denominator]    *)
(* with n, d >= 0; d = 0 encodes the two IEEE specials the program can     *)
(* produce: +infinity (n > 0) and NaN (n = 0).  Per-replica losses are     *)
(* integers counted in tenths (4 stands for 0.4).  Rounding error of       *)
(* binary floating point is outside the model.                             *)
(***************************************************************************)
EXTENDS Integers, Sequences, FiniteSets, TLC

\* ---------------------------------------------------------------- bounds
MaxEpochs == 2
MaxBatches == 2
MaxReplicas == 2
MaxRunEpochs == 3
MaxCalls == 11
MaxLongEpochs == 7
MaxStages == 2
MaxBatchSize == 3
MaxScale == 3

\* Program constants.
BATCH_SIZE == 32

\* Per-replica losses a step can report (in tenths), for the two datasets.
TrainLosses == {4}
ValLosses == {5, 9}

\* ------------------------------------------------------- float arithmetic
Inf == [n |-> 1, d |-> 0]
NaN == [n |-> 0, d |-> 0]
Zero == [n |-> 0, d |-> 1]

IsNaN(x) == x.d = 0 /\ x.n = 0
IsInf(x) == x.d = 0 /\ x.n > 0

\* a < b on floats: false whenever a NaN is involved.
FLess(a, b) ==
    /\ ~IsNaN(a) /\ ~IsNaN(b)
    /\ ~IsInf(a)
    /\ (IsInf(b) \/ a.n * b.d < b.n * a.d)

\* a == b on floats: NaN equals nothing, inf equals inf.
FEq(a, b) ==
    /\ ~IsNaN(a) /\ ~IsNaN(b)
    /\ IF IsInf(a) \/ IsInf(b)
         THEN IsInf(a) /\ IsInf(b)
         ELSE a.n * b.d = b.n * a.d

\* total / count on float tensors: 0/0 is NaN, x/0 is +inf, no exception.
TrueDiv(total, count) ==
    IF count = 0
      THEN (IF total = 0 THEN NaN ELSE Inf)
      ELSE [n |-> total, d |-> count]

\* x / 5.0
DivBy5(x) == IF x.d = 0 THEN x ELSE [n |-> x.n, d |-> x.d * 5]

\* Round-half-even of a / b for a >= 0, b > 0.
RoundDiv(a, b) ==
    LET q == a \div b
        r == a % b
    IN  IF 2 * r < b THEN q
        ELSE IF 2 * r > b THEN q + 1
        ELSE IF q % 2 = 0 THEN q ELSE q + 1

\* '{:.4f}'.format(loss): the loss (in tenths) printed with four decimals,
\* as a count of 1/10000, or the text inf / nan.
Fmt4(loss) ==
    IF IsNaN(loss) THEN <<"nan", 0>>
    ELSE IF IsInf(loss) THEN <<"inf", 0>>
    ELSE <<"num", RoundDiv(loss.n * 1000, loss.d)>>

\* ------------------------------------------------------------------ state
VARIABLES
    \* Trainer.__init__ arguments and what main() derives from them
    epochs, start_epoch, num_replicas, global_batch_size,
    initial_learning_rate,
    \* number of batches the train / validation dataset yields per epoch
    train_size, val_size,
    \* Trainer fields
    current_learning_rate, optimizer_learning_rate,
    last_val_loss, lowest_val_loss, patience_count,
    \* Trainer.run: position, loop variable, locals
    pc, epoch, train_loss, val_loss,
    \* locals of the epoch function being executed
    total_loss, num_batches, consumed,
    \* per-replica step of the batch in flight: [st, loss]
    replica,
    \* model weights held by each replica, as the number of updates applied
    weights,
    \* ./models: the save_model calls made so far, in order
    saves,
    \* history: the steps of the current epoch, one record per finished
    \* epoch, one record per lr_decay call
    steps, val_history, sched_trace,
    \* compute_loss called on its own: arguments and results
    labels, outputs, loss, prev_loss, scale

config == <<epochs, start_epoch, num_replicas, global_batch_size,
            initial_learning_rate, train_size, val_size>>
scheduler == <<current_learning_rate, optimizer_learning_rate,
               patience_count, sched_trace>>
best == <<last_val_loss, lowest_val_loss>>
driver == <<total_loss, num_batches, consumed, replica>>
lossCall == <<labels, outputs, loss, prev_loss, scale>>
vars == <<config, scheduler, best, driver, lossCall, pc, epoch, train_loss,
          val_loss, weights, saves, steps, val_history>>

\* ------------------------------------------------------- Trainer.__init__
max_patience == 5

DefaultLearningRate == [n |-> 25, d |-> 100000]
InitialLearningRates == {DefaultLearningRate}

TrainerInit ==
    /\ current_learning_rate = initial_learning_rate
    /\ optimizer_learning_rate = initial_learning_rate
    /\ last_val_loss = Inf
    /\ lowest_val_loss = Inf
    /\ patience_count = 0

\* Nothing has run yet.
Idle ==
    /\ train_loss = NaN /\ val_loss = NaN
    /\ total_loss = 0 /\ num_batches = 0 /\ consumed = 0
    /\ replica = [r \in 1..num_replicas |-> [st |-> "idle", loss |-> 0]]
    /\ weights = [r \in 1..num_replicas |-> 0]
    /\ saves = <<>> /\ steps = <<>> /\ val_history = <<>>
    /\ sched_trace = <<>>

NoLossCall ==
    /\ labels = <<>> /\ outputs = <<>>
    /\ loss = NaN /\ prev_loss = NaN /\ scale = 0

\* ------------------------------------------------------- Trainer.lr_decay
\* Variant: a reset is not followed by the increment (the += 1 sits in an
\* else branch).
lr_decay_else_increment(pat, lr, last, lowest) ==
    LET decay == pat >= max_patience
        equal == FEq(last, lowest)
        lr1   == IF decay THEN DivBy5(lr) ELSE lr
    IN  [patience_count |-> IF decay \/ equal THEN 0 ELSE pat + 1,
         current_learning_rate |-> lr1,
         optimizer_learning_rate |-> lr1,
         decayed |-> decay,
         equal |-> equal]

\* Variant: a decay does not reset patience_count.
lr_decay_no_reset(pat, lr, last, lowest) ==
    LET decay == pat >= max_patience
        equal == FEq(last, lowest)
        lr1   == IF decay THEN DivBy5(lr) ELSE lr
        pat1  == IF ~decay /\ equal THEN 0 ELSE pat
    IN  [patience_count |-> pat1 + 1,
         current_learning_rate |-> lr1,
         optimizer_learning_rate |-> lr1,
         decayed |-> decay,
         equal |-> equal]

\* Variant: the patience test is > instead of >=.
lr_decay_late(pat, lr, last, lowest) ==
    LET decay == pat > max_patience
        equal == FEq(last, lowest)
        lr1   == IF decay THEN DivBy5(lr) ELSE lr
        pat1  == IF decay \/ equal THEN 0 ELSE pat
    IN  [patience_count |-> pat1 + 1,
         current_learning_rate |-> lr1,
         optimizer_learning_rate |-> lr1,
         decayed |-> decay,
         equal |-> equal]

\* The fields lr_decay leaves behind when called with patience_count = pat,
\* current_learning_rate = lr, last_val_loss = last, lowest_val_loss = lowest.
lr_decay(pat, lr, last, lowest) ==
    LET decay == pat >= max_patience
        equal == FEq(last, lowest)
        lr1   == IF decay THEN DivBy5(lr) ELSE lr
        pat1  == IF decay \/ equal THEN 0 ELSE pat
    IN  [patience_count |-> pat1 + 1,
         current_learning_rate |-> lr1,
         optimizer_learning_rate |-> lr1,
         decayed |-> decay,
         equal |-> equal]

\* Variant: the last line of lr_decay is missing, the optimizer keeps the
\* learning rate it had.
CallLrDecayStaleOptimizer ==
    LET after == lr_decay(patience_count, current_learning_rate,
                          last_val_loss, lowest_val_loss)
    IN  /\ patience_count' = after.patience_count
        /\ current_learning_rate' = after.current_learning_rate
        /\ optimizer_learning_rate' = optimizer_learning_rate
        /\ sched_trace' = Append(sched_trace,
               [patience_before |-> patience_count,
                patience_count |-> after.patience_count,
                learning_rate |-> after.current_learning_rate,
                decayed |-> after.decayed,
                equal |-> after.equal])

\* self.lr_decay() applied to the Trainer's fields.
CallLrDecay ==
    LET after == lr_decay(patience_count, current_learning_rate,
                          last_val_loss, lowest_val_loss)
    IN  /\ patience_count' = after.patience_count
        /\ current_learning_rate' = after.current_learning_rate
        /\ optimizer_learning_rate' = after.optimizer_learning_rate
        /\ sched_trace' = Append(sched_trace,
               [patience_before |-> patience_count,
                patience_count |-> after.patience_count,
                learning_rate |-> after.current_learning_rate,
                decayed |-> after.decayed,
                equal |-> after.equal])

\* ----------------------------------------------------- Trainer.save_model
\* The file save_model(ep, l) writes when the model holds weights w: its
\* name and the weights in it.
save_model(ep, l, w) ==
    [epoch |-> ep, loss |-> l, name |-> <<ep, Fmt4(l)>>, weights |-> w]

\* ------------------------------------------------- strategy.reduce(SUM)
RECURSIVE SumUpTo(_, _)
SumUpTo(f, k) == IF k = 0 THEN 0 ELSE f[k] + SumUpTo(f, k - 1)

\* Variant: the per-replica losses are averaged (ReduceOp.MEAN).
ReduceMean(per_replica_loss) ==
    SumUpTo(per_replica_loss, num_replicas) \div num_replicas

\* batch_loss: the per-replica losses of one batch, reduced with SUM.
ReduceSum(per_replica_loss) ==
    SumUpTo(per_replica_loss, num_replicas)

\* ------------------------------------------------------------ Trainer.run
AllReplicas(state) == \A r \in 1..num_replicas : replica[r].st = state

\* Variant: the epoch starts training without calling the scheduler.
EpochStartNoDecay ==
    /\ pc = "loop" /\ epoch <= epochs
    /\ steps' = <<>>
    /\ total_loss' = 0 /\ num_batches' = 0 /\ consumed' = 0
    /\ pc' = "train"
    /\ UNCHANGED <<config, scheduler, best, lossCall, epoch, train_loss,
                   val_loss, replica, weights, saves, val_history>>

\* Variant: the loop body runs for start_epoch even when start_epoch >
\* epochs (the range test comes after the first pass).
EpochStartAtLeastOnce ==
    /\ pc = "loop" /\ (epoch <= epochs \/ (epoch = start_epoch /\ steps = <<>>))
    /\ CallLrDecay
    /\ steps' = <<"lr_decay">>
    /\ total_loss' = 0 /\ num_batches' = 0 /\ consumed' = 0
    /\ pc' = "train"
    /\ UNCHANGED <<config, best, lossCall, epoch, train_loss, val_loss,
                   replica, weights, saves, val_history>>

\* for epoch in range(start_epoch, epochs + 1): self.lr_decay(); print(...)
\* and entry into distributed_train_epoch.
EpochStart ==
    /\ pc = "loop" /\ epoch <= epochs
    /\ CallLrDecay
    /\ steps' = <<"lr_decay">>
    /\ total_loss' = 0 /\ num_batches' = 0 /\ consumed' = 0
    /\ pc' = "train"
    /\ UNCHANGED <<config, best, lossCall, epoch, train_loss, val_loss,
                   replica, weights, saves, val_history>>

\* Variant: the next batch is handed out without waiting for the current
\* batch's steps and reduction.
DispatchEager(phase, size) ==
    /\ pc = phase /\ consumed < size
    /\ replica' = [r \in 1..num_replicas |-> [st |-> "running", loss |-> 0]]
    /\ consumed' = consumed + 1
    /\ UNCHANGED <<config, scheduler, best, lossCall, pc, epoch, train_loss,
                   val_loss, total_loss, num_batches, weights, saves, steps,
                   val_history>>

\* for one_batch in dataset: strategy.experimental_run_v2(step, one_batch)
\* hands the next batch to every replica.
Dispatch(phase, size) ==
    /\ pc = phase /\ consumed < size
    /\ AllReplicas("idle")
    /\ replica' = [r \in 1..num_replicas |-> [st |-> "running", loss |-> 0]]
    /\ consumed' = consumed + 1
    /\ UNCHANGED <<config, scheduler, best, lossCall, pc, epoch, train_loss,
                   val_loss, total_loss, num_batches, weights, saves, steps,
                   val_history>>

TrainDispatch == Dispatch("train", train_size)
ValDispatch == Dispatch("val", val_size)

\* train_step on replica r: forward pass, loss, gradients, one optimizer
\* update of the replica's weights; returns the loss.
TrainStep(r) ==
    /\ pc = "train" /\ replica[r].st = "running"
    /\ \E l \in TrainLosses :
          replica' = [replica EXCEPT ![r] = [st |-> "done", loss |-> l]]
    /\ weights' = [weights EXCEPT ![r] = @ + 1]
    /\ steps' = Append(steps, "train_step")
    /\ UNCHANGED <<config, scheduler, best, lossCall, pc, epoch, train_loss,
                   val_loss, total_loss, num_batches, consumed, saves,
                   val_history>>

\* Variant: the validation step applies gradients as the train step does.
ValStepUpdating(r) ==
    /\ pc = "val" /\ replica[r].st = "running"
    /\ \E l \in ValLosses :
          replica' = [replica EXCEPT ![r] = [st |-> "done", loss |-> l]]
    /\ weights' = [weights EXCEPT ![r] = @ + 1]
    /\ steps' = Append(steps, "val_step")
    /\ UNCHANGED <<config, scheduler, best, lossCall, pc, epoch, train_loss,
                   val_loss, total_loss, num_batches, consumed, saves,
                   val_history>>

\* val_step on replica r: forward pass in inference mode, returns the loss.
ValStep(r) ==
    /\ pc = "val" /\ replica[r].st = "running"
    /\ \E l \in ValLosses :
          replica' = [replica EXCEPT ![r] = [st |-> "done", loss |-> l]]
    /\ steps' = Append(steps, "val_step")
    /\ UNCHANGED <<config, scheduler, best, lossCall, pc, epoch, train_loss,
                   val_loss, total_loss, num_batches, consumed, weights,
                   saves, val_history>>

\* batch_loss = strategy.reduce(SUM, per_replica_loss); total_loss +=
\* batch_loss; num_batches += 1
Reduce(phase) ==
    /\ pc = phase
    /\ AllReplicas("done")
    /\ total_loss' = total_loss + ReduceSum([r \in 1..num_replicas |-> replica[r].loss])
    /\ num_batches' = num_batches + 1
    /\ replica' = [r \in 1..num_replicas |-> [st |-> "idle", loss |-> 0]]
    /\ UNCHANGED <<config, scheduler, best, lossCall, pc, epoch, train_loss,
                   val_loss, consumed, weights, saves, steps, val_history>>

TrainReduce == Reduce("train")
ValReduce == Reduce("val")

\* distributed_train_epoch returns; train_loss = train_total_loss /
\* num_train_batches is printed and logged; distributed_val_epoch is entered.
TrainEpochEnd ==
    /\ pc = "train" /\ consumed = train_size
    /\ AllReplicas("idle")
    /\ train_loss' = TrueDiv(total_loss, num_batches)
    /\ steps' = steps \o <<"train_epoch", "log_train">>
    /\ total_loss' = 0 /\ num_batches' = 0 /\ consumed' = 0
    /\ pc' = "val"
    /\ UNCHANGED <<config, scheduler, best, lossCall, epoch, val_loss,
                   replica, weights, saves, val_history>>

\* distributed_val_epoch returns; val_loss = val_total_loss /
\* num_val_batches is printed and logged.
ValEpochEnd ==
    /\ pc = "val" /\ consumed = val_size
    /\ AllReplicas("idle")
    /\ val_loss' = TrueDiv(total_loss, num_batches)
    /\ steps' = steps \o <<"val_epoch", "log_val">>
    /\ pc' = "decide"
    /\ UNCHANGED <<config, scheduler, best, lossCall, epoch, train_loss,
                   driver, weights, saves, val_history>>

\* Variant: a tie with the best loss counts as an improvement (<=).
ImprovedOrTie(v, lowest) == FLess(v, lowest) \/ FEq(v, lowest)

\* Variant: the comparison is the wrong way round.
ImprovedReversed(v, lowest) == FLess(lowest, v)

\* if val_loss < self.lowest_val_loss: save_model; lowest_val_loss = val_loss
\* self.last_val_loss = val_loss
Improved(v, lowest) == FLess(v, lowest)

\* Variant: the improvement is saved but lowest_val_loss is not updated.
DecideKeepLowest(v, w) ==
    LET improved == Improved(v, lowest_val_loss)
    IN  /\ saves' = IF improved
                      THEN Append(saves, save_model(epoch, v, w))
                      ELSE saves
        /\ lowest_val_loss' = lowest_val_loss
        /\ last_val_loss' = v
        /\ val_history' = Append(val_history,
               [epoch |-> epoch, val_loss |-> v,
                lowest_before |-> lowest_val_loss, improved |-> improved])

\* The end of the loop body for an epoch whose validation loss is v, the
\* model holding weights w.
Decide(v, w) ==
    LET improved == Improved(v, lowest_val_loss)
    IN  /\ saves' = IF improved
                      THEN Append(saves, save_model(epoch, v, w))
                      ELSE saves
        /\ lowest_val_loss' = IF improved THEN v ELSE lowest_val_loss
        /\ last_val_loss' = v
        /\ val_history' = Append(val_history,
               [epoch |-> epoch, val_loss |-> v,
                lowest_before |-> lowest_val_loss, improved |-> improved])

\* Variant: the checkpoint decision is taken on the running validation
\* total, before the validation epoch has returned.
CheckpointDuringValidation ==
    /\ pc = "val" /\ num_batches > 0
    /\ Decide(TrueDiv(total_loss, num_batches), weights[1])
    /\ steps' = steps \o <<"checkpoint_decision", "update_losses">>
    /\ epoch' = epoch + 1
    /\ pc' = "loop"
    /\ UNCHANGED <<config, scheduler, lossCall, train_loss, val_loss, driver,
                   weights>>

CheckpointDecision ==
    /\ pc = "decide"
    /\ Decide(val_loss, weights[1])
    /\ steps' = steps \o <<"checkpoint_decision", "update_losses">>
    /\ epoch' = epoch + 1
    /\ pc' = "loop"
    /\ UNCHANGED <<config, scheduler, lossCall, train_loss, val_loss, driver,
                   weights>>

\* Variant: the loop is left one epoch early (range(start_epoch, epochs)).
FinalSaveEarly ==
    /\ pc = "loop" /\ epoch >= epochs
    /\ saves' = Append(saves, save_model(epochs, last_val_loss, weights[1]))
    /\ pc' = "done"
    /\ UNCHANGED <<config, scheduler, best, lossCall, epoch, train_loss,
                   val_loss, driver, weights, steps, val_history>>

\* Variant: the run ends without the final save.
SkipFinalSave ==
    /\ pc = "loop" /\ epoch > epochs
    /\ pc' = "done"
    /\ UNCHANGED <<config, scheduler, best, lossCall, epoch, train_loss,
                   val_loss, driver, weights, saves, steps, val_history>>

\* Variant: the final save is tagged with lowest_val_loss.
FinalSaveLowest ==
    /\ pc = "loop" /\ epoch > epochs
    /\ saves' = Append(saves, save_model(epochs, lowest_val_loss, weights[1]))
    /\ pc' = "done"
    /\ UNCHANGED <<config, scheduler, best, lossCall, epoch, train_loss,
                   val_loss, driver, weights, steps, val_history>>

\* After the loop: self.save_model(self.epochs, self.last_val_loss)
FinalSave ==
    /\ pc = "loop" /\ epoch > epochs
    /\ saves' = Append(saves, save_model(epochs, last_val_loss, weights[1]))
    /\ pc' = "done"
    /\ UNCHANGED <<config, scheduler, best, lossCall, epoch, train_loss,
                   val_loss, driver, weights, steps, val_history>>

\* main(): the command line's epochs and start_epoch, the strategy's
\* replicas, the two datasets; then Trainer(...) and trainer.run(...).
InitRun(maxEpochs) ==
    /\ epochs \in 1..maxEpochs
    /\ start_epoch \in 1..(epochs + 1)
    /\ num_replicas \in 1..MaxReplicas
    /\ global_batch_size = num_replicas * BATCH_SIZE
    /\ initial_learning_rate \in InitialLearningRates
    /\ train_size \in 0..MaxBatches
    /\ val_size \in 0..MaxBatches
    /\ TrainerInit
    /\ Idle
    /\ NoLossCall
    /\ pc = "loop"
    /\ epoch = start_epoch

Init == InitRun(MaxEpochs)

Next ==
    \/ EpochStart
    \/ TrainDispatch
    \/ \E r \in 1..num_replicas : TrainStep(r)
    \/ TrainReduce
    \/ TrainEpochEnd
    \/ ValDispatch
    \/ \E r \in 1..num_replicas : ValStep(r)
    \/ ValReduce
    \/ ValEpochEnd
    \/ CheckpointDecision
    \/ FinalSave

Spec == Init /\ [][Next]_vars

\* The interpreter keeps executing the program: a step that can be taken is
\* taken.
FairSpec == Spec /\ WF_vars(Next)

\* A long run on one replica: one train batch and two validation batches
\* (or none) per epoch, enough epochs for the scheduler to decay.
InitLong ==
    /\ epochs = MaxLongEpochs
    /\ start_epoch = 1
    /\ num_replicas = 1
    /\ global_batch_size = num_replicas * BATCH_SIZE
    /\ initial_learning_rate \in InitialLearningRates
    /\ train_size = 1
    /\ val_size \in {0, 2}
    /\ TrainerInit
    /\ Idle
    /\ NoLossCall
    /\ pc = "loop"
    /\ epoch = start_epoch

SpecLong == InitLong /\ [][Next]_vars

\* ------------------------------------------ Trainer.run, epoch by epoch
\* The batch losses strategy.reduce can return when each replica reports a
\* loss in values.
BatchLosses(values) ==
    {ReduceSum(f) : f \in [1..num_replicas -> values]}

\* The total_loss an epoch function can return after k batches.
RECURSIVE EpochTotals(_, _)
EpochTotals(values, k) ==
    IF k = 0 THEN {0}
    ELSE {t + b : t \in EpochTotals(values, k - 1), b \in BatchLosses(values)}

EpochSteps ==
    <<"lr_decay", "train_epoch", "log_train", "val_epoch", "log_val",
      "checkpoint_decision", "update_losses">>

\* One iteration of the loop of Trainer.run, start to end.
RunEpoch ==
    /\ pc = "loop" /\ epoch <= epochs
    /\ CallLrDecay
    /\ \E tt \in EpochTotals(TrainLosses, train_size),
          vt \in EpochTotals(ValLosses, val_size) :
          /\ train_loss' = TrueDiv(tt, train_size)
          /\ val_loss' = TrueDiv(vt, val_size)
          /\ total_loss' = vt
    /\ num_batches' = val_size /\ consumed' = val_size
    /\ weights' = [r \in 1..num_replicas |-> weights[r] + train_size]
    /\ Decide(val_loss', weights'[1])
    /\ steps' = EpochSteps
    /\ epoch' = epoch + 1
    /\ UNCHANGED <<config, lossCall, pc, replica>>

InitEpochs == InitRun(MaxRunEpochs)

NextEpochs ==
    \/ RunEpoch
    \/ FinalSave

SpecEpochs == InitEpochs /\ [][NextEpochs]_vars

\* ----------------------------------------- Trainer.lr_decay on its own
\* Values the two loss fields are given between scheduler calls.
SchedLosses == {Inf, NaN, [n |-> 5, d |-> 1], [n |-> 9, d |-> 1]}

\* A unit run of the scheduler: a fresh Trainer whose loss fields hold any
\* two values.
InitSched ==
    /\ epochs = 1 /\ start_epoch = 1 /\ num_replicas = 1
    /\ global_batch_size = BATCH_SIZE
    /\ initial_learning_rate \in InitialLearningRates
    /\ train_size = 0 /\ val_size = 0
    /\ current_learning_rate = initial_learning_rate
    /\ optimizer_learning_rate = initial_learning_rate
    /\ patience_count = 0
    /\ last_val_loss \in SchedLosses
    /\ lowest_val_loss \in SchedLosses
    /\ Idle
    /\ NoLossCall
    /\ pc = "sched"
    /\ epoch = 1

\* trainer.lr_decay()
SchedCall ==
    /\ pc = "sched" /\ Len(sched_trace) < MaxCalls
    /\ CallLrDecay
    /\ UNCHANGED <<config, best, driver, lossCall, pc, epoch, train_loss,
                   val_loss, weights, saves, steps, val_history>>

\* The loss fields are assigned between two calls.
SchedSetLosses ==
    /\ pc = "sched" /\ Len(sched_trace) < MaxCalls
    /\ \E a, b \in SchedLosses :
          /\ <<a, b>> # <<last_val_loss, lowest_val_loss>>
          /\ last_val_loss' = a
          /\ lowest_val_loss' = b
    /\ UNCHANGED <<config, scheduler, driver, lossCall, pc, epoch,
                   train_loss, val_loss, weights, saves, steps, val_history>>

NextSched ==
    \/ SchedCall
    \/ SchedSetLosses

SpecSched == InitSched /\ [][NextSched]_vars

\* --------------------------------------------------- Trainer.compute_loss
\* A tensor is a sequence of positions (batch x height x width, flattened),
\* each a sequence of channel values.
RAdd(a, b) == [n |-> a.n * b.d + b.n * a.d, d |-> a.d * b.d]
RMul(a, b) == [n |-> a.n * b.n, d |-> a.d * b.d]

Square(x) == x * x

RECURSIVE SumSquares(_, _, _)
SumSquares(a, b, k) ==
    IF k = 0 THEN 0 ELSE Square(a[k] - b[k]) + SumSquares(a, b, k - 1)

\* tf.keras.losses.MeanSquaredError(reduction=NONE): per position, the mean
\* over the channels of the squared difference.
loss_object(lab, out) ==
    [p \in 1..Len(lab) |->
        [n |-> SumSquares(lab[p], out[p], Len(lab[p])), d |-> Len(lab[p])]]

RECURSIVE ReduceSumUpTo(_, _)
ReduceSumUpTo(t, k) ==
    IF k = 0 THEN Zero ELSE RAdd(ReduceSumUpTo(t, k - 1), t[k])

\* tf.reduce_sum
reduce_sum(t) == ReduceSumUpTo(t, Len(t))

\* The loss after the first k outputs: loss += reduce_sum(loss_object(labels,
\* output)) * (1. / global_batch_size)
RECURSIVE LossAfter(_, _, _, _)
LossAfter(lab, outs, gbs, k) ==
    IF k = 0 THEN Zero
    ELSE RAdd(LossAfter(lab, outs, gbs, k - 1),
              RMul(reduce_sum(loss_object(lab, outs[k])), [n |-> 1, d |-> gbs]))

\* Variant: only the last output stage is supervised (loss = instead of
\* loss +=).
compute_loss_last_stage(lab, outs, gbs) ==
    RMul(reduce_sum(loss_object(lab, outs[Len(outs)])), [n |-> 1, d |-> gbs])

compute_loss(lab, outs, gbs) == LossAfter(lab, outs, gbs, Len(outs))

\* Tensors of a given shape with small entries.
TensorShapes == {<<1, 2>>, <<2, 1>>}
Entries == {0, 1}
Tensors(shape) == [1..shape[1] -> [1..shape[2] -> Entries]]

InitLoss ==
    /\ epochs = 1 /\ start_epoch = 1 /\ num_replicas = 1
    /\ global_batch_size \in 1..MaxBatchSize
    /\ initial_learning_rate \in InitialLearningRates
    /\ train_size = 0 /\ val_size = 0
    /\ TrainerInit
    /\ Idle
    /\ \E shape \in TensorShapes :
          /\ labels \in Tensors(shape)
          /\ \E stages \in 1..MaxStages :
                outputs \in [1..stages -> Tensors(shape)]
    /\ loss = NaN /\ prev_loss = NaN /\ scale = 0
    /\ pc = "call"
    /\ epoch = 1

\* loss = self.compute_loss(labels, outputs)
ComputeLossCall ==
    /\ pc = "call"
    /\ loss' = compute_loss(labels, outputs, global_batch_size)
    /\ pc' = "returned"
    /\ UNCHANGED <<epochs, start_epoch, num_replicas, global_batch_size,
                   initial_learning_rate, train_size, val_size, scheduler,
                   best, driver, labels, outputs, prev_loss, scale, epoch,
                   train_loss, val_loss, weights, saves, steps, val_history>>

\* The same labels and outputs under a global batch size k times as large.
RescaleBatch ==
    /\ pc = "returned" /\ scale = 0
    /\ \E k \in 2..MaxScale :
          /\ global_batch_size' = k * global_batch_size
          /\ scale' = k
    /\ prev_loss' = loss
    /\ pc' = "call"
    /\ UNCHANGED <<epochs, start_epoch, num_replicas,
                   initial_learning_rate, train_size, val_size, scheduler,
                   best, driver, labels, outputs, loss, epoch,
                   train_loss, val_loss, weights, saves, steps, val_history>>

NextLoss ==
    \/ ComputeLossCall
    \/ RescaleBatch

SpecLoss == InitLoss /\ [][NextLoss]_vars

\* ================================================================ claims
\* Epoch e has a checkpoint: some save_model call was tagged with e.
EpochSaved(e) == \E i \in DOMAIN saves : saves[i].epoch = e

\* The finished epoch recorded in h had a validation loss strictly below
\* the lowest_val_loss of before it.
StrictlyBetter(h) == FLess(h.val_loss, h.lowest_before)

\* C1: for every epoch e of the run, a checkpoint tagged e is written if
\* and only if the epoch's validation loss is strictly less than the
\* lowest_val_loss of before the epoch, or e = epochs; no checkpoint carries
\* any other tag.  (The checkpoint of the last epoch is due when the run is
\* done.)
C1_CheckpointIffImprovedOrLast ==
    /\ \A i \in DOMAIN val_history :
          LET h == val_history[i]
          IN  (h.epoch # epochs \/ pc = "done") =>
                 (EpochSaved(h.epoch) <=> (StrictlyBetter(h) \/ h.epoch = epochs))
    /\ \A i \in DOMAIN saves :
          \/ saves[i].epoch = epochs
          \/ \E j \in DOMAIN val_history :
                /\ val_history[j].epoch = saves[i].epoch
                /\ StrictlyBetter(val_history[j])

\* A finished run of three epochs: one improved and was saved, one that is
\* not the last did not improve and has no checkpoint.
C1_Witness ==
    /\ pc = "done" /\ Len(val_history) = 3
    /\ \E i, j \in DOMAIN val_history :
          /\ StrictlyBetter(val_history[i]) /\ EpochSaved(val_history[i].epoch)
          /\ ~StrictlyBetter(val_history[j]) /\ val_history[j].epoch # epochs
          /\ ~EpochSaved(val_history[j].epoch)

\* lowest_val_loss after the i-th finished epoch of the run (i = 0: before
\* the first epoch).
LowestAfter(i) ==
    IF i < Len(val_history)
      THEN val_history[i + 1].lowest_before
      ELSE lowest_val_loss

Observed(i) == {val_history[j].val_loss : j \in 1..i}

\* C2: lowest_val_loss is +infinity before the first epoch, never
\* increases, after every epoch is the smaller of its previous value and the
\* epoch's validation loss, and so is the minimum of the validation losses
\* observed so far: it is +infinity or one of them, and none of them is
\* below it.  (Minimum in the order of floats, where NaN is below nothing.)
C2_LowestIsRunningMinimum ==
    /\ LowestAfter(0) = Inf
    /\ \A i \in 1..Len(val_history) :
          LET v == val_history[i].val_loss
              before == LowestAfter(i - 1)
              after == LowestAfter(i)
          IN  /\ ~FLess(before, after)
              /\ after = (IF FLess(v, before) THEN v ELSE before)
              /\ after \in Observed(i) \cup {Inf}
              /\ \A x \in Observed(i) : ~FLess(x, after)

\* Three epochs have finished, the second below the first, the third above
\* the second: lowest_val_loss is the second.
C2_Witness ==
    /\ Len(val_history) = 3
    /\ FLess(val_history[2].val_loss, val_history[1].val_loss)
    /\ FLess(val_history[2].val_loss, val_history[3].val_loss)
    /\ lowest_val_loss = val_history[2].val_loss

\* The validation losses of the run are numbers, each below (above) the one
\* before it.
StrictlyDecreasing ==
    /\ \A i \in DOMAIN val_history : ~IsNaN(val_history[i].val_loss)
    /\ \A i \in 1..(Len(val_history) - 1) :
          FLess(val_history[i + 1].val_loss, val_history[i].val_loss)

StrictlyIncreasing ==
    /\ \A i \in DOMAIN val_history : ~IsNaN(val_history[i].val_loss)
    /\ \A i \in 1..(Len(val_history) - 1) :
          FLess(val_history[i].val_loss, val_history[i + 1].val_loss)

\* C3: a finished run of N >= 1 epochs has made N + 1 save_model calls (one
\* per epoch, then the final one) if its validation losses were strictly
\* decreasing, and 2 (the first epoch, then the final one) if they were
\* strictly increasing.
C3_CheckpointCounts ==
    (pc = "done" /\ Len(val_history) >= 1) =>
        /\ StrictlyDecreasing =>
              /\ Len(saves) = Len(val_history) + 1
              /\ \A i \in DOMAIN val_history : saves[i].epoch = val_history[i].epoch
        /\ StrictlyIncreasing =>
              /\ Len(saves) = 2
              /\ saves[1].epoch = start_epoch
        /\ saves[Len(saves)].epoch = epochs

\* A finished run of three epochs with strictly increasing losses.
C3_Witness ==
    /\ pc = "done" /\ Len(val_history) = 3
    /\ StrictlyIncreasing
    /\ Len(saves) = 2

\* A finished run of three epochs with strictly decreasing losses.
C3_WitnessDecreasing ==
    /\ pc = "done" /\ Len(val_history) = 3
    /\ StrictlyDecreasing
    /\ Len(saves) = 4

\* The run of three epochs from epoch 1 whose validation losses were 0.9,
\* 0.5, 0.5 (losses count tenths).
Scenario955 ==
    /\ start_epoch = 1 /\ epochs = 3 /\ pc = "done"
    /\ Len(val_history) = 3
    /\ FEq(val_history[1].val_loss, [n |-> 9, d |-> 1])
    /\ FEq(val_history[2].val_loss, [n |-> 5, d |-> 1])
    /\ FEq(val_history[3].val_loss, [n |-> 5, d |-> 1])

FileNames == {saves[i].name : i \in DOMAIN saves}

\* C4: an epoch whose validation loss equals lowest_val_loss writes no
\* improvement checkpoint and leaves lowest_val_loss as it was; and the run
\* of 3 epochs with validation losses 0.9, 0.5, 0.5 saves at epochs 1 and 2
\* by improvement and at epoch 3 by the final save, 3 files in all, and ends
\* with lowest_val_loss = 0.5.
C4_TieIsNoImprovement ==
    /\ \A i \in DOMAIN val_history :
          LET h == val_history[i]
          IN  FEq(h.val_loss, h.lowest_before) =>
                 /\ LowestAfter(i) = h.lowest_before
                 /\ \A k \in DOMAIN saves :
                       saves[k].epoch = h.epoch =>
                          /\ pc = "done" /\ k = Len(saves)
                          /\ saves[k].loss = last_val_loss
    /\ Scenario955 =>
          /\ Len(saves) = 3
          /\ saves[1].name = <<1, <<"num", 9000>>>>
          /\ saves[2].name = <<2, <<"num", 5000>>>>
          /\ saves[3].name = <<3, <<"num", 5000>>>>
          /\ Cardinality(FileNames) = 3
          /\ FEq(lowest_val_loss, [n |-> 5, d |-> 1])

\* That run, its dataset yielding 2 batches per epoch.
C4_Witness == Scenario955 /\ val_size = 2 /\ train_size = 2

\* The first k scheduler calls all found last_val_loss # lowest_val_loss.
NoEqualityUpTo(k) == \A i \in 1..k : ~sched_trace[i].equal

\* C5: from patience_count = 0, with max_patience = 5, when the equality
\* last_val_loss == lowest_val_loss holds at none of the calls, each of the
\* first 5 calls leaves current_learning_rate as it was and patience_count
\* at 1, 2, 3, 4, 5, and the 6th call divides current_learning_rate by 5 and
\* leaves patience_count at 1.
C5_SixthCallDecays ==
    \A k \in 1..Len(sched_trace) :
        (k <= 6 /\ NoEqualityUpTo(k)) =>
            LET call == sched_trace[k]
            IN  IF k <= 5
                  THEN /\ call.learning_rate = initial_learning_rate
                       /\ call.patience_count = k
                       /\ ~call.decayed
                  ELSE /\ call.decayed
                       /\ call.learning_rate.n * 5 * initial_learning_rate.d
                             = initial_learning_rate.n * call.learning_rate.d
                       /\ call.patience_count = 1
                       /\ call.patience_before = 5

\* Six calls have been made, none with the two losses equal; the optimizer
\* runs at the decayed rate.
C5_Witness ==
    /\ Len(sched_trace) = 6
    /\ NoEqualityUpTo(6)
    /\ patience_count = 1
    /\ optimizer_learning_rate = current_learning_rate
    /\ current_learning_rate # initial_learning_rate

IsPrefix(a, b) ==
    /\ Len(a) <= Len(b)
    /\ \A i \in 1..Len(a) : a[i] = b[i]

IsReplicaStep(x) == x \in {"train_step", "val_step"}
IsEpochStep(x) == ~IsReplicaStep(x)

\* The steps of the current epoch without the per-replica steps.
MainSteps == SelectSeq(steps, IsEpochStep)

InEpoch == pc \in {"train", "val", "decide"}

\* C6: in every epoch the steps happen in the order lr_decay, train epoch,
\* log of the train mean loss, validation epoch, log of the validation mean
\* loss, checkpoint decision, update of the loss fields, each exactly once;
\* lr_decay is called once per epoch, before any train_step of it; every
\* train_step comes before the end of the train epoch and every val_step
\* between the train log and the end of the validation epoch; and
\* last_val_loss is written once per epoch, after validation.
C6_EpochStepOrder ==
    /\ IsPrefix(MainSteps, EpochSteps)
    /\ (steps # <<>>) => steps[1] = "lr_decay"
    /\ (pc \in {"loop", "done"} /\ val_history # <<>>) => MainSteps = EpochSteps
    /\ InEpoch => steps # <<>>
    /\ pc = "decide" => Len(MainSteps) = 5
    /\ \A i \in DOMAIN steps :
          /\ steps[i] = "train_step" =>
                \A j \in 1..(i - 1) : steps[j] \in {"lr_decay", "train_step"}
          /\ steps[i] = "val_step" =>
                /\ \E j \in 1..(i - 1) : steps[j] = "log_train"
                /\ \A j \in 1..(i - 1) : steps[j] # "val_epoch"
    /\ Len(sched_trace) = Len(val_history) + (IF InEpoch THEN 1 ELSE 0)
    /\ Len(val_history) = epoch - start_epoch
    /\ last_val_loss =
          (IF val_history = <<>> THEN Inf
           ELSE val_history[Len(val_history)].val_loss)
    /\ pc \in {"val", "decide"} =>
          Cardinality({i \in DOMAIN steps : steps[i] = "train_step"})
             = train_size * num_replicas

\* The second epoch of a run has just finished, after 2 batches on 2
\* replicas in each of its two phases.
C6_Witness ==
    /\ pc = "loop" /\ Len(val_history) = 2
    /\ num_replicas = 2 /\ train_size = 2 /\ val_size = 2
    /\ Len(steps) = 15
    /\ MainSteps = EpochSteps

\* start_epoch <= epochs and both datasets yield at least one batch.
NonEmptyRun == start_epoch <= epochs /\ train_size > 0 /\ val_size > 0

ImprovedEpochs == {i \in DOMAIN val_history : StrictlyBetter(val_history[i])}

\* Initializing and the epoch loop, Finalizing, Done.
PcOrder ==
    {<<"loop", "train">>, <<"train", "val">>, <<"val", "decide">>,
     <<"decide", "loop">>, <<"loop", "done">>}

\* C7: with start_epoch <= epochs and non-empty finite datasets, the run
\* executes the epochs start_epoch, start_epoch + 1, ..., epochs, each once
\* and in this order (epochs - start_epoch + 1 of them), then makes the
\* final save once and terminates.
C7_RunsEachEpochOnceAndTerminates ==
    /\ [](NonEmptyRun =>
            /\ \A i \in DOMAIN val_history :
                  val_history[i].epoch = start_epoch + i - 1
            /\ Len(val_history) <= epochs - start_epoch + 1
            /\ Len(sched_trace) <= epochs - start_epoch + 1
            /\ pc = "done" =>
                  /\ Len(val_history) = epochs - start_epoch + 1
                  /\ Len(sched_trace) = epochs - start_epoch + 1
                  /\ Len(saves) = Cardinality(ImprovedEpochs) + 1
                  /\ saves[Len(saves)].epoch = epochs
                  /\ saves[Len(saves)].loss = last_val_loss
            /\ pc # "done" => Len(saves) = Cardinality(ImprovedEpochs))
    /\ [][NonEmptyRun => (pc # "done" /\ (pc' # pc => <<pc, pc'>> \in PcOrder))]_vars
    /\ (NonEmptyRun ~> (pc = "done"))

\* A run of two epochs on two replicas and two batches per dataset is done.
C7_Witness ==
    /\ NonEmptyRun /\ pc = "done"
    /\ start_epoch = 1 /\ epochs = 2
    /\ num_replicas = 2 /\ train_size = 2 /\ val_size = 2
    /\ Len(val_history) = 2

\* C8: when a dataset yields zero batches in an epoch, the epoch driver
\* raises an error and the run stops there: no mean loss of zero batches is
\* computed, and the run does not go on to the validation epoch, the
\* checkpoint decision or a later epoch.
C8_EmptyDatasetStopsRun ==
    /\ train_size = 0 => (pc \notin {"val", "decide"} /\ val_history = <<>>)
    /\ val_size = 0 => (pc # "decide" /\ val_history = <<>>)

RECURSIVE SetSum(_, _)
SetSum(f, S) ==
    IF S = {} THEN 0
    ELSE LET x == CHOOSE x \in S : TRUE
         IN  f[x] + SetSum(f, S \ {x})

\* The sum of the losses the replicas hold for the batch in flight.
ReportedLoss == SetSum([r \in 1..num_replicas |-> replica[r].loss], 1..num_replicas)

\* C9: in the train and in the validation epoch driver, the loss of a batch
\* is the sum of the losses its replicas reported, total_loss is the sum of
\* the batch losses (it starts at 0 and grows by each batch loss), and the
\* num_batches returned is the number of batches the dataset produced.
C9_SumOverReplicasAndBatches ==
    /\ [][(AllReplicas("done") /\ replica' # replica) =>
             /\ total_loss' = total_loss + ReportedLoss
             /\ num_batches' = num_batches + 1]_vars
    /\ [][(pc = "train" /\ pc' = "val") =>
             /\ num_batches = train_size
             /\ train_loss' = TrueDiv(total_loss, train_size)]_vars
    /\ [][(pc = "val" /\ pc' = "decide") =>
             /\ num_batches = val_size
             /\ val_loss' = TrueDiv(total_loss, val_size)]_vars
    /\ [](pc \in {"train", "val"} =>
             /\ num_batches = 0 => total_loss = 0
             /\ AllReplicas("idle") => num_batches = consumed
             /\ ~AllReplicas("idle") => num_batches = consumed - 1)

\* Two replicas reported 0.5 and 0.9 for the second validation batch, after
\* a first batch of 1.4: the total is 2.8.
C9_Witness ==
    /\ pc = "val" /\ num_replicas = 2
    /\ num_batches = 2 /\ total_loss = 28
    /\ AllReplicas("idle")

\* The squared differences between labels and all output stages, summed
\* over stages, positions and channels.
Cells ==
    {<<r, p, k>> \in (DOMAIN outputs) \X (DOMAIN labels) \X (1..Len(labels[1])) : TRUE}
TotalSquaredError ==
    SetSum([c \in Cells |->
                  (labels[c[2]][c[3]] - outputs[c[1]][c[2]][c[3]])
                * (labels[c[2]][c[3]] - outputs[c[1]][c[2]][c[3]])], Cells)

\* C10: compute_loss returns the sum over all output stages of the summed
\* per-stage squared-error loss (the mean over the channels, summed over
\* the positions) divided by the global batch size B; with the same labels
\* and outputs, a global batch size k times as large gives 1/k of the
\* result; and the call changes no Trainer field, weight or file.
C10_LossIsStageSumOverBatchSize ==
    /\ pc = "returned" =>
          /\ loss.d > 0
          /\ loss.n * (Len(labels[1]) * global_batch_size)
                = TotalSquaredError * loss.d
          /\ scale > 0 =>
                prev_loss.n * loss.d = scale * loss.n * prev_loss.d
    /\ pc \in {"call", "returned"} =>
          /\ TrainerInit
          /\ weights = [r \in 1..num_replicas |-> 0]
          /\ saves = <<>>

\* compute_loss has returned a non-zero loss for two stages and two
\* channels, after the global batch size was tripled.
C10_Witness ==
    /\ pc = "returned" /\ scale = 3
    /\ Len(outputs) = 2 /\ Len(labels[1]) = 2
    /\ loss.n > 0
    /\ global_batch_size = 6

\* Calls i < j both decayed and no call between them did.
ConsecutiveDecays(i, j) ==
    /\ i < j
    /\ sched_trace[i].decayed /\ sched_trace[j].decayed
    /\ \A m \in (i + 1)..(j - 1) : ~sched_trace[m].decayed

\* C11 as stated: when the equality last_val_loss == lowest_val_loss holds
\* at no scheduler call, any two consecutive decays are exactly
\* max_patience + 1 calls apart.
C11_DecayEveryMaxPatiencePlusOne ==
    \A i, j \in DOMAIN sched_trace :
        (NoEqualityUpTo(j) /\ ConsecutiveDecays(i, j)) => j - i = max_patience + 1

\* C11, amended: when the equality holds at no scheduler call, the first
\* decay is at call max_patience + 1, and from then on the decays are
\* exactly max_patience calls apart: after a decay at call i the next one
\* is at call i + max_patience and at none before.
C11_DecayEveryMaxPatience ==
    \A j \in DOMAIN sched_trace :
        NoEqualityUpTo(j) =>
            /\ (\A i \in 1..(j - 1) : ~sched_trace[i].decayed) =>
                  (sched_trace[j].decayed <=> j = max_patience + 1)
            /\ \A i \in 1..(j - 1) :
                  /\ ConsecutiveDecays(i, j) => j - i = max_patience
                  /\ (sched_trace[i].decayed /\ j = i + max_patience) =>
                        sched_trace[j].decayed

\* Eleven calls without the equality: decays at calls 6 and 11.
C11_Witness ==
    /\ Len(sched_trace) = 11
    /\ NoEqualityUpTo(11)
    /\ ConsecutiveDecays(6, 11)

\* C12: the scheduler is reduce-on-plateau: whenever an lr_decay call
\* divides the learning rate, none of the max_patience epochs finished
\* immediately before the call reached a new lowest validation loss.
C12_DecayOnlyOnPlateau ==
    \A c \in DOMAIN sched_trace :
        sched_trace[c].decayed =>
            \A e \in DOMAIN val_history :
                (c - max_patience <= e /\ e <= c - 1) =>
                    ~StrictlyBetter(val_history[e])

InFlight == \E r \in 1..num_replicas : replica[r].st # "idle"

\* C13: the epoch driver is synchronous per batch. While a replica works on
\* a batch (or its result waits to be reduced), that batch is the only one
\* handed out and not yet reduced, and every earlier batch of the epoch has
\* been added to the running total; between batches nothing is in flight.
C13_OneBatchInFlight ==
    /\ InFlight => /\ pc \in {"train", "val"}
                   /\ consumed = num_batches + 1
    /\ ~InFlight => consumed = num_batches
    /\ \A r \in 1..num_replicas :
          replica[r].st = "running" => \A q \in 1..num_replicas :
                                          replica[q].st \in {"running", "done"}

\* Two replicas on the second batch of a training epoch: one has finished
\* its step, the other has not, and the first batch is already reduced.
C13_Witness ==
    /\ pc = "train" /\ num_replicas = 2
    /\ consumed = 2 /\ num_batches = 1
    /\ replica[1].st = "done" /\ replica[2].st = "running"

\* C14: a checkpoint save never overlaps a parameter update. Every step
\* that writes a checkpoint starts with all replicas idle, either after the
\* epoch's validation epoch has consumed and reduced all its batches or
\* after the loop has ended, and changes neither weights nor replicas.
C14_SaveOnlyAtEpochBoundary ==
    [][saves' # saves =>
          /\ AllReplicas("idle")
          /\ \/ /\ pc = "decide" /\ epoch <= epochs
                /\ consumed = val_size /\ num_batches = val_size
                /\ steps # <<>> /\ steps[Len(steps)] = "log_val"
             \/ pc = "loop" /\ epoch > epochs
          /\ weights' = weights /\ replica' = replica]_vars

\* An improvement checkpoint written after an epoch in which two replicas
\* trained and validated on two batches each.
C14_Witness ==
    /\ pc = "loop" /\ Len(saves) = 1 /\ Len(val_history) = 1
    /\ num_replicas = 2 /\ train_size = 2 /\ val_size = 2
    /\ saves[1].weights = 2

\* The number of optimizer updates replica r has applied when the run has
\* trained every batch of the epochs before the current one and stands
\* where pc, num_batches and the replica's state say in the current one.
UpdatesExpected(r) ==
    (epoch - start_epoch) * train_size
        + (CASE pc = "train" ->
                   num_batches + (IF replica[r].st = "done" THEN 1 ELSE 0)
             [] pc \in {"val", "decide"} -> train_size
             [] OTHER -> 0)

\* The updates applied once the training epoch of epoch ep has returned.
UpdatesAfterEpoch(ep) ==
    IF ep < start_epoch THEN 0 ELSE (ep - start_epoch + 1) * train_size

\* C15: the model parameters (and the optimizer's slots) are changed only
\* by train_step, once per replica and training batch: every replica has
\* applied exactly one update for each training batch it has stepped
\* through, whatever validation steps, scheduler calls, logging and saves
\* happened in between, and a checkpoint of epoch e holds the weights left
\* by the last training batch of epoch e.
C15_WeightsChangedOnlyByTrainStep ==
    /\ \A r \in 1..num_replicas : weights[r] = UpdatesExpected(r)
    /\ \A i \in DOMAIN saves :
          saves[i].weights = UpdatesAfterEpoch(saves[i].epoch)

\* Two epochs of two training and two validation batches on two replicas,
\* an improvement checkpoint after the first epoch and the final save.
C15_Witness ==
    /\ pc = "done" /\ num_replicas = 2 /\ train_size = 2 /\ val_size = 2
    /\ start_epoch = 1 /\ epochs = 2
    /\ Len(saves) >= 2
    /\ saves[1].epoch = 1 /\ saves[1].weights = 2
    /\ saves[Len(saves)].weights = 4
    /\ weights = [r \in 1..2 |-> 4]

RECURSIVE Pow5(_)
Pow5(k) == IF k = 0 THEN 1 ELSE 5 * Pow5(k - 1)

Decays == Cardinality({i \in DOMAIN sched_trace : sched_trace[i].decayed})

\* C16: current_learning_rate is changed only by lr_decay. In every state
\* it equals initial_learning_rate / 5^k, k the number of decays so far, and
\* the optimizer's learning rate equals it; a step changes it only if it is
\* the scheduler call that opens an epoch, and then to a smaller value.
C16_LearningRateChangedOnlyByScheduler ==
    /\ [](/\ FEq(current_learning_rate,
                 [n |-> initial_learning_rate.n,
                  d |-> initial_learning_rate.d * Pow5(Decays)])
          /\ optimizer_learning_rate = current_learning_rate)
    /\ [][current_learning_rate' # current_learning_rate =>
              /\ pc = "loop" /\ pc' = "train"
              /\ Len(sched_trace') = Len(sched_trace) + 1
              /\ FLess(current_learning_rate', current_learning_rate)]_vars

\* The sixth epoch's training batch runs at the learning rate the scheduler
\* has just divided by 5.
C16_Witness ==
    /\ pc = "train" /\ \E r \in 1..num_replicas : replica[r].st = "running"
    /\ Decays = 1
    /\ current_learning_rate = DivBy5(initial_learning_rate)
    /\ optimizer_learning_rate = DivBy5(initial_learning_rate)

\* C17: patience_count is bounded. It starts at 0; after every lr_decay
\* call, whatever the loss fields hold, 1 <= patience_count <= max_patience;
\* and a call decays exactly if it starts with patience_count =
\* max_patience.
C17_PatienceBounded ==
    /\ patience_count \in 0..max_patience
    /\ sched_trace = <<>> => patience_count = 0
    /\ \A i \in DOMAIN sched_trace :
          /\ sched_trace[i].patience_before =
                 (IF i = 1 THEN 0 ELSE sched_trace[i - 1].patience_count)
          /\ 1 <= sched_trace[i].patience_count
          /\ sched_trace[i].patience_count <= max_patience
          /\ sched_trace[i].decayed <=>
                 sched_trace[i].patience_before = max_patience
    /\ sched_trace # <<>> =>
          patience_count = sched_trace[Len(sched_trace)].patience_count

\* Eight calls with changing loss fields: ties reset the count, it then
\* reaches max_patience at the seventh call and the eighth decays.
C17_Witness ==
    /\ Len(sched_trace) = 8
    /\ sched_trace[1].equal /\ sched_trace[3].equal
    /\ ~sched_trace[2].equal
    /\ sched_trace[7].patience_count = max_patience
    /\ sched_trace[8].decayed /\ sched_trace[8].patience_count = 1
    /\ IsNaN(last_val_loss)

\* last_val_loss when i epochs of the run have finished.
LastAfter(i) == IF i = 0 THEN Inf ELSE val_history[i].val_loss

\* a >= b on floats: false whenever a NaN is involved.
FGeq(a, b) == FLess(b, a) \/ FEq(a, b)

\* C18: at every scheduler call last_val_loss >= lowest_val_loss; the two
\* are equal exactly if no epoch of the run has finished yet or the latest
\* epoch's validation loss was less than or equal to that of every earlier
\* epoch; and a tie with the best loss, which writes no improvement
\* checkpoint, resets patience_count when patience_count < max_patience.
C18_LastAtLeastLowest ==
    \A c \in DOMAIN sched_trace :
        /\ FGeq(LastAfter(c - 1), LowestAfter(c - 1))
        /\ sched_trace[c].equal <=>
              \/ c = 1
              \/ \A e \in 1..(c - 2) :
                    FGeq(val_history[e].val_loss, LastAfter(c - 1))
        /\ ( /\ c > 1
             /\ sched_trace[c].equal
             /\ ~StrictlyBetter(val_history[c - 1])
             /\ sched_trace[c].patience_before < max_patience )
           => /\ sched_trace[c].patience_count = 1
              /\ (c - 1 < epochs => ~EpochSaved(start_epoch + c - 2))

LastEpochImproved ==
    /\ val_history # <<>>
    /\ StrictlyBetter(val_history[Len(val_history)])

\* C19: when the run is done, its last save is tagged (epochs,
\* last_val_loss). If the last epoch improved on lowest_val_loss, the
\* final save has the same tag, epoch and 4-decimal loss, as that epoch's
\* improvement save, and the run has produced as many distinct tags as it
\* had improving epochs; otherwise it has produced one more.
C19_FinalSaveTag ==
    pc = "done" =>
        LET final == saves[Len(saves)]
        IN  /\ final.epoch = epochs
            /\ final.loss = last_val_loss
            /\ final.name = <<epochs, Fmt4(last_val_loss)>>
            /\ LastEpochImproved =>
                  /\ Len(saves) >= 2
                  /\ saves[Len(saves) - 1].name = final.name
                  /\ Cardinality(FileNames) = Cardinality(ImprovedEpochs)
            /\ ~LastEpochImproved =>
                  /\ \A i \in 1..(Len(saves) - 1) : saves[i].name # final.name
                  /\ Cardinality(FileNames) = Cardinality(ImprovedEpochs) + 1

\* A run of three epochs of which the first and the last improved: three
\* saves, two distinct tags.
C19_Witness ==
    /\ pc = "done" /\ start_epoch = 1 /\ epochs = 3
    /\ LastEpochImproved
    /\ ImprovedEpochs = {1, 3}
    /\ Len(saves) = 3 /\ Cardinality(FileNames) = 2
    /\ saves[2].name = saves[3].name

\* C20: a run with start_epoch > epochs calls neither the scheduler nor a
\* train or validation step, leaves the learning rate, patience_count and
\* lowest_val_loss (and last_val_loss) at their initial values, and when it
\* is done has written exactly one checkpoint, tagged epoch = epochs and
\* loss = +infinity.
C20_EmptyEpochRange ==
    start_epoch > epochs =>
        /\ sched_trace = <<>> /\ steps = <<>> /\ val_history = <<>>
        /\ \A r \in 1..num_replicas : weights[r] = 0 /\ replica[r].st = "idle"
        /\ TrainerInit
        /\ pc \in {"loop", "done"}
        /\ pc = "loop" => saves = <<>>
        /\ pc = "done" =>
              /\ Len(saves) = 1
              /\ saves[1].epoch = epochs
              /\ saves[1].loss = Inf
              /\ saves[1].name = <<epochs, <<"inf", 0>>>>

\* The run with epochs = 2 and start_epoch = 3 on non-empty datasets is
\* done and has written its one checkpoint.
C20_Witness ==
    /\ epochs = 2 /\ start_epoch = 3 /\ pc = "done"
    /\ train_size = 2 /\ val_size = 2 /\ num_replicas = 2
    /\ Len(saves) = 1 /\ saves[1].name = <<2, <<"inf", 0>>>>

====
